---- MODULE Spec2Model ----
(***************************************************************************)
(* Confidence-gated retrieval-and-generation pipeline of the Revit RAG     *)
(* assistant: backend_core.rag_answer (one retrieval, generation with one  *)
(* retry, answer validation) and ui_gradio.ask (strategy fallback with an  *)
(* enlarged-k retry, one generation call, citation post-check).            *)
(*                                                                         *)
(* Numbers: confidences, scores and distances are in hundredths (35 is     *)
(* 0.35).  Texts are sequences of tokens; a token is a record [t, i].      *)
(* The blend weight alpha is passed through to the backend untouched and   *)
(* is not part of the state.                                               *)
(***************************************************************************)
EXTENDS Integers, Sequences, FiniteSets, TLC

\* ------------------------------------------------------------------ bounds
\* the largest result count a caller requests
MaxK == 8
\* the most hits the search backend has for one query
MaxHits == 2
\* the largest citation index the generation backend writes
MaxCite == 3
\* the relevance signals a hit can carry range over -0.25 .. (MaxSignal-1)/4
MaxSignal == 8
\* the longest raw text handed to a cleaning step on its own, in tokens
MaxLen == 3
\* the questions one event listener handles, one after the other
MaxAsks == 2

\* ------------------------------------------------------- program constants
OOD_MIN_SCORE == 35
OOD_MIN_SIM == 35
HARD_CAP == 15
GEN_TOKENS == 1200
RETRY_TOKENS == 400
UI_TOKENS == 600

Modes == {"hybrid", "bm25", "vector"}
FallbackOrder == <<"hybrid", "bm25", "vector">>

\* -------------------------------------------------------------------- text
Tok(t) == [t |-> t, i |-> 0]
\* the bracketed integer citation "[i]"
Cite(i) == [t |-> "cite", i |-> i]
\* an ordinary word
W == Tok("word")
\* a blank
SP == Tok("space")
\* "<think>" and "</think>"
TH == Tok("think_open")
ET == Tok("think_close")
\* a newline followed by "Sources:" or "Source:"
SRC == Tok("nl_sources")
\* the word "autocad", any case
AC == Tok("autocad")
\* a line that starts a heading, a list item or a numbered item
ITEM == Tok("item")
\* a list marker and "Sources:" in the middle of a line
MARK == Tok("marker")
SRCW == Tok("sources_word")
\* the sentence "I don't know."
IDK == Tok("idk")
\* the prefixes of the two error replies
GENERR == Tok("generation_error")
UIERR == Tok("ui_error")

Sentinel == <<IDK>>
EmptyText == <<>>

Min(a, b) == IF a <= b THEN a ELSE b
Max(a, b) == IF a >= b THEN a ELSE b

\* str.strip(): white space removed at both ends
RECURSIVE lstrip(_)
lstrip(s) ==
    IF s = <<>> THEN <<>>
    ELSE IF Head(s) = SP THEN lstrip(Tail(s)) ELSE s

RECURSIVE rstrip(_)
rstrip(s) ==
    IF s = <<>> THEN <<>>
    ELSE IF s[Len(s)] = SP THEN rstrip(SubSeq(s, 1, Len(s) - 1)) ELSE s

py_strip(s) == rstrip(lstrip(s))

\* the text after the first "</think>", or nothing when there is none
RECURSIVE AfterClose(_)
AfterClose(s) ==
    IF s = <<>> THEN <<>>
    ELSE IF Head(s) = ET THEN Tail(s) ELSE AfterClose(Tail(s))

\* re.sub(r"(?is)<think>.*?(?:</think>|$)", "", s)
RECURSIVE sub_think(_)
sub_think(s) ==
    IF s = <<>> THEN <<>>
    ELSE IF Head(s) = TH THEN sub_think(AfterClose(Tail(s)))
    ELSE <<Head(s)>> \o sub_think(Tail(s))

\* re.sub(r"(?ims)\n+Sources?:[\s\S]*\Z", "", s)
RECURSIVE sub_sources(_)
sub_sources(s) ==
    IF s = <<>> THEN <<>>
    ELSE IF Head(s) = SRC THEN <<>>
    ELSE <<Head(s)>> \o sub_sources(Tail(s))

\* backend_core._strip
strip(text) == py_strip(sub_sources(sub_think(text)))

HasClose(s) == \E j \in 1..Len(s) : s[j] = ET

\* what follows a removed block and its white space has lost the newline
\* that opened its line: a list line is one only at the start of the text
join_after_think(out, s) ==
    IF s = <<>> THEN s
    ELSE IF Head(s) = ITEM /\ out # <<>> THEN <<MARK>> \o Tail(s)
    ELSE IF Head(s) = SRC THEN <<SRCW>> \o Tail(s)
    ELSE s

RECURSIVE closed_think_scan(_, _)
closed_think_scan(out, s) ==
    IF s = <<>> THEN out
    ELSE IF Head(s) = TH /\ HasClose(Tail(s))
         THEN closed_think_scan(out, join_after_think(out, lstrip(AfterClose(Tail(s)))))
    ELSE closed_think_scan(Append(out, Head(s)), Tail(s))

\* re.sub(r"<think>.*?</think>\s*", "", text): closed blocks only
sub_closed_think(s) == closed_think_scan(<<>>, s)

\* cleaned[m.start():] for the first heading / list / numbered line
RECURSIVE from_first_item(_)
from_first_item(s) ==
    IF s = <<>> THEN <<>>
    ELSE IF Head(s) = ITEM THEN s ELSE from_first_item(Tail(s))

HasItem(s) == \E j \in 1..Len(s) : s[j] = ITEM

\* ui_gradio.strip_think
strip_think(text) ==
    LET cleaned == sub_closed_think(text)
    IN  py_strip(IF HasItem(cleaned) THEN from_first_item(cleaned) ELSE cleaned)

\* re.search(r"\[\d+\]", answer)
has_citation(s) == \E j \in 1..Len(s) : s[j].t = "cite"

\* no denylist
mentions_autocad_never(s) == FALSE

\* re.search(r"\bautocad\b", answer, re.I)
mentions_autocad(s) == \E j \in 1..Len(s) : s[j] = AC

\* ------------------------------------------------------------------- hits
\* a field of the relevance envelope: absent, a number, or not a number
None == [tag |-> "none", v |-> 0]
Num(v) == [tag |-> "num", v |-> v]
Bad == [tag |-> "bad", v |-> 0]
Hit(sc, dist) == [score |-> sc, distance |-> dist]

\* a malformed score ends the scoring at 0 instead of falling through
conf_bad_is_zero(h) ==
    IF h.score.tag = "num" THEN h.score.v
    ELSE IF h.score.tag = "bad" THEN 0
    ELSE IF h.distance.tag = "num" THEN Max(0, Min(100, 100 - h.distance.v))
    ELSE 0

\* backend_core._conf
conf(h) ==
    IF h.score.tag = "num" THEN h.score.v
    ELSE IF h.distance.tag = "num" THEN Max(0, Min(100, 100 - h.distance.v))
    ELSE 0

\* ui_gradio.hit_confidence
hit_confidence(h) ==
    IF h.score.tag = "num" THEN h.score.v
    ELSE IF h.distance.tag = "num" THEN Max(0, Min(100, 100 - h.distance.v))
    ELSE 0

SetMax(S) == CHOOSE x \in S : \A y \in S : y <= x

\* the gate without the threshold: any non-empty hit list passes
ok_nonempty(hits, mode) == hits # <<>>

\* the gate with an exclusive comparison
ok_strict(hits, mode) ==
    IF hits = <<>> THEN FALSE
    ELSE LET best == SetMax({conf(hits[j]) : j \in 1..Len(hits)})
         IN  best > (IF mode \in {"hybrid", "bm25"} THEN OOD_MIN_SCORE ELSE OOD_MIN_SIM)

\* backend_core._ok
ok(hits, mode) ==
    IF hits = <<>> THEN FALSE
    ELSE LET best == SetMax({conf(hits[j]) : j \in 1..Len(hits)})
         IN  best >= (IF mode \in {"hybrid", "bm25"} THEN OOD_MIN_SCORE ELSE OOD_MIN_SIM)

\* the gate on the weakest hit instead of the best one
confident_enough_min(hits, mode) ==
    IF hits = <<>> THEN FALSE
    ELSE \A j \in 1..Len(hits) :
            hit_confidence(hits[j]) >=
                (IF mode \in {"hybrid", "bm25"} THEN OOD_MIN_SCORE ELSE OOD_MIN_SIM)

\* ui_gradio.confident_enough
confident_enough(hits, mode) ==
    IF hits = <<>> THEN FALSE
    ELSE LET best == SetMax({hit_confidence(hits[j]) : j \in 1..Len(hits)})
         IN  IF mode \in {"hybrid", "bm25"} THEN best >= OOD_MIN_SCORE
             ELSE best >= OOD_MIN_SIM

\* the two texts a context assembler returns: the evidence blocks and the
\* sources listing; entry i of each carries the tag [i] and renders hit i
EmptySrc == [text |-> "", lines |-> <<>>]
NoSources == [text |-> "_No sources_", lines |-> <<>>]
Listing(hits) == [j \in 1..Len(hits) |-> [i |-> j, hit |-> hits[j]]]

\* the sources listing leaves out the hits without any confidence and
\* numbers the rest
ctx_drops_unscored(hits) ==
    [blocks |-> Listing(hits),
     src |-> IF hits = <<>> THEN NoSources
             ELSE [text |-> "list",
                   lines |-> Listing(SelectSeq(hits, LAMBDA h : conf(h) > 0))]]

\* backend_core._ctx
ctx(hits) ==
    [blocks |-> Listing(hits),
     src |-> IF hits = <<>> THEN NoSources
             ELSE [text |-> "list", lines |-> Listing(hits)]]

\* the hits rendered in reverse order
build_context_reversed(hits) ==
    LET rev == [j \in 1..Len(hits) |-> [i |-> j, hit |-> hits[Len(hits) + 1 - j]]]
    IN  [blocks |-> rev,
         src |-> IF hits = <<>> THEN NoSources ELSE [text |-> "list", lines |-> rev]]

\* ui_gradio.build_context
build_context(hits) ==
    [blocks |-> Listing(hits),
     src |-> IF hits = <<>> THEN NoSources
             ELSE [text |-> "list", lines |-> Listing(hits)]]

\* backend_core._prompt and the "brief" variant of the retry
prompt(blocks) == [sources |-> blocks, brief |-> FALSE]
brief_prompt(blocks) == [sources |-> blocks, brief |-> TRUE]
\* ui_gradio.build_prompt
build_prompt(blocks) == [sources |-> blocks, brief |-> FALSE]

\* ------------------------------------------------------------ the inputs
\* what the search backend can report for one hit
HitPool ==
    { Hit(Num(10), None), Hit(Num(35), None), Hit(None, Num(20)), Hit(None, None) }

RECURSIVE SeqsUpTo(_, _)
SeqsUpTo(S, n) ==
    IF n = 0 THEN {<<>>}
    ELSE LET shorter == SeqsUpTo(S, n - 1)
         IN  shorter \cup {Append(s, x) : s \in {q \in shorter : Len(q) = n - 1}, x \in S}

\* the ranked hits a retrieval with limit k can return
HitLists(k) == SeqsUpTo(HitPool, Min(k, MaxHits))

\* what the generation backend can answer
GenResponses ==
    { <<>>, <<SP>>, <<TH, W, ET>>, <<TH, W, Cite(1)>>, <<W>>, <<IDK>>,
      <<W, SP, AC, Cite(1)>>, <<W, Cite(1), SRC, Cite(2)>>,
      <<W, Cite(1), ITEM, W>>, <<TH, W, ET, SP, ITEM, Cite(1)>>,
      <<W, SP, AC>>, <<SP, W, SP, Cite(1), SP>> }
    \cup { <<W, SP, Cite(i)>> : i \in 0..MaxCite }

\* the message of an exception raised by a generation call
ErrMessages == { <<W>> }

\* ------------------------------------------------------------------ state
VARIABLES
    \* where the running call stands: "idle", "rag_query", "rag_gen1",
    \* "rag_gen2", "ask_search", "ask_gen", "done" (returned), "raised"
    pc,
    \* the entry point called: "none", "rag_answer" or "ask"
    entry,
    \* the arguments: [mode, k, require_citation]
    req,
    \* the local `hits`
    hits,
    \* the retrieval calls made so far: [mode, k, accepted]
    attempts,
    \* ask: index into modes_to_try and pass (1: requested k, 2: enlarged k)
    mi,
    pass,
    \* ask: the local `used_mode` ("none" for None)
    used_mode,
    \* the evidence blocks and the sources listing built from the hits
    evidence,
    src,
    \* the generation calls made so far: [max_tokens, prompt, raised, out]
    gens,
    \* what the call returned: the answer (ask: the assistant reply) and the
    \* sources text
    answer,
    sources,
    \* rag_answer: the diagnostics
    diag,
    \* ui_gradio.chat_history
    chat_history,
    \* a function applied on its own: its argument and what it returned
    arg,
    ret

vars == <<pc, entry, req, hits, attempts, mi, pass, used_mode, evidence, src,
          gens, answer, sources, diag, chat_history, arg, ret>>

NoArg == [none |-> TRUE]
NoReq == [mode |-> "none", k |-> 0, require_citation |-> FALSE]
NoDiag == [hits |-> 0, best_conf |-> 0, mode |-> "none", k |-> 0]
Question == <<Tok("question")>>

Init ==
    /\ pc = "idle"
    /\ entry = "none"
    /\ req = NoReq
    /\ hits = <<>>
    /\ attempts = <<>>
    /\ mi = 0
    /\ pass = 0
    /\ used_mode = "none"
    /\ evidence = <<>>
    /\ src = EmptySrc
    /\ gens = <<>>
    /\ answer = EmptyText
    /\ sources = EmptySrc
    /\ diag = NoDiag
    /\ chat_history = <<>>
    /\ arg = NoArg
    /\ ret = NoArg

\* no call of the pipeline is in progress and none has run
Standalone(p) ==
    /\ pc = p
    /\ entry = "none"
    /\ req = NoReq
    /\ hits = <<>>
    /\ attempts = <<>>
    /\ mi = 0
    /\ pass = 0
    /\ used_mode = "none"
    /\ evidence = <<>>
    /\ src = EmptySrc
    /\ gens = <<>>
    /\ answer = EmptyText
    /\ sources = EmptySrc
    /\ diag = NoDiag
    /\ chat_history = <<>>

Attempt(m, k, acc) == [mode |-> m, k |-> k, accepted |-> acc]
GenCall(n, p, r, out) == [max_tokens |-> n, prompt |-> p, raised |-> r, out |-> out]

\* the retrieval responses a call consumed, kept in `arg` when the runs of
\* the pipeline are compared with one another (`arg` holds a log then)
Observed(h) ==
    /\ arg' = IF "log" \in DOMAIN arg THEN [log |-> Append(arg.log, h)] ELSE arg
    /\ UNCHANGED ret

\* ------------------------------------------------- backend_core.rag_answer
\* the diagnostics with the confidence of the first hit as the best one
rag_diag_first(h, mode, k) ==
    [hits |-> Len(h),
     best_conf |-> IF h = <<>> THEN 0 ELSE conf(h[1]),
     mode |-> mode,
     k |-> k]

\* the diagnostics report the default strategy instead of the one used
rag_diag_default_mode(h, mode, k) ==
    [hits |-> Len(h),
     best_conf |-> IF h = <<>> THEN 0 ELSE SetMax({conf(h[j]) : j \in 1..Len(h)}),
     mode |-> "hybrid",
     k |-> k]

\* the diagnostics of rag_answer
rag_diag(h, mode, k) ==
    [hits |-> Len(h),
     best_conf |-> IF h = <<>> THEN 0 ELSE SetMax({conf(h[j]) : j \in 1..Len(h)}),
     mode |-> mode,
     k |-> k]

\* no retry at all
needs_retry_never(a) == FALSE

\* `if not answer.strip()`: the first cleaned text calls for the retry
needs_retry(a) == py_strip(a) = <<>>

\* the citation is not appended
append_citation_noop(a) == py_strip(a)

\* `(answer.rstrip() + " [1]").strip()`
append_citation(a) == py_strip(rstrip(a) \o <<SP, Cite(1)>>)

\* the validation without the citation enforcement: the denylist only
rag_validate_denylist_only(a, s, require_citation) ==
    IF mentions_autocad(a)
    THEN [answer |-> Sentinel, sources |-> EmptySrc]
    ELSE [answer |-> a, sources |-> s]

\* the validation of the cleaned answer: citation enforcement, then the
\* denylist; the [answer, sources] returned
rag_validate(a, s, require_citation) ==
    IF require_citation /\ ~has_citation(a) /\ s.text = ""
    THEN [answer |-> Sentinel, sources |-> EmptySrc]
    ELSE LET a2 == IF require_citation /\ ~has_citation(a)
                   THEN append_citation(a) ELSE a
         IN  IF mentions_autocad(a2)
             THEN [answer |-> Sentinel, sources |-> EmptySrc]
             ELSE [answer |-> a2, sources |-> s]

\* the answer of the `except` branch
generation_error(e) == <<GENERR>> \o e

RagCall(mode, k, rc) ==
    /\ pc = "idle"
    /\ pc' = "rag_query"
    /\ entry' = "rag_answer"
    /\ req' = [mode |-> mode, k |-> k, require_citation |-> rc]
    /\ UNCHANGED <<arg, ret>>
    /\ UNCHANGED <<hits, attempts, mi, pass, used_mode, evidence, src, gens,
                   answer, sources, diag, chat_history>>

\* _query returns h; the gate; on success the context is built
RagQuery(h) ==
    /\ pc = "rag_query"
    /\ hits' = h
    /\ diag' = rag_diag(h, req.mode, req.k)
    /\ attempts' = Append(attempts, Attempt(req.mode, req.k, ok(h, req.mode)))
    /\ IF ~ok(h, req.mode)
       THEN /\ answer' = Sentinel
            /\ sources' = EmptySrc
            /\ pc' = "done"
            /\ UNCHANGED <<evidence, src>>
       ELSE /\ evidence' = ctx(h).blocks
            /\ src' = ctx(h).src
            /\ pc' = "rag_gen1"
            /\ UNCHANGED <<answer, sources>>
    /\ Observed(h)
    /\ UNCHANGED <<entry, req, mi, pass, used_mode, gens, chat_history>>

\* _query raises (backend unreachable, malformed response): nothing in
\* rag_answer catches it
RagQueryRaises ==
    /\ pc = "rag_query"
    /\ attempts' = Append(attempts, Attempt(req.mode, req.k, FALSE))
    /\ pc' = "raised"
    /\ UNCHANGED <<arg, ret>>
    /\ UNCHANGED <<entry, req, hits, mi, pass, used_mode, evidence, src, gens,
                   answer, sources, diag, chat_history>>

\* the return after the validation of the cleaned text a
RagReturn(a) ==
    LET r == rag_validate(a, src, req.require_citation)
    IN  /\ answer' = r.answer
        /\ sources' = r.sources
        /\ pc' = "done"

\* the first generation call returns raw
RagGen1(raw) ==
    /\ pc = "rag_gen1"
    /\ gens' = Append(gens, GenCall(GEN_TOKENS, prompt(evidence), FALSE, raw))
    /\ IF needs_retry(strip(raw))
       THEN pc' = "rag_gen2" /\ UNCHANGED <<answer, sources>>
       ELSE RagReturn(strip(raw))
    /\ UNCHANGED <<arg, ret>>
    /\ UNCHANGED <<entry, req, hits, attempts, mi, pass, used_mode, evidence,
                   src, diag, chat_history>>

\* the retry returns raw
RagGen2(raw) ==
    /\ pc = "rag_gen2"
    /\ gens' = Append(gens, GenCall(RETRY_TOKENS, brief_prompt(evidence), FALSE, raw))
    /\ RagReturn(strip(raw))
    /\ UNCHANGED <<arg, ret>>
    /\ UNCHANGED <<entry, req, hits, attempts, mi, pass, used_mode, evidence,
                   src, diag, chat_history>>

\* a generation call raises e
RagGenRaises(e) ==
    /\ pc \in {"rag_gen1", "rag_gen2"}
    /\ gens' = Append(gens,
                 IF pc = "rag_gen1"
                 THEN GenCall(GEN_TOKENS, prompt(evidence), TRUE, e)
                 ELSE GenCall(RETRY_TOKENS, brief_prompt(evidence), TRUE, e))
    /\ answer' = generation_error(e)
    /\ sources' = EmptySrc
    /\ pc' = "done"
    /\ UNCHANGED <<arg, ret>>
    /\ UNCHANGED <<entry, req, hits, attempts, mi, pass, used_mode, evidence,
                   src, diag, chat_history>>

\* ------------------------------------------------------------ ui_gradio.ask
\* the fixed order, whatever the caller prefers
modes_to_try_fixed(mode) == FallbackOrder

\* the preferred strategy is not filtered out of the fallback order
modes_to_try_dup(mode) == <<mode>> \o FallbackOrder

\* `[mode] + [m for m in ("hybrid", "bm25", "vector") if m != mode]`
modes_to_try(mode) == <<mode>> \o SelectSeq(FallbackOrder, LAMBDA m : m # mode)

\* the enlarged count without the hard cap
enlarged_k_nocap(k) == 2 * k

\* the result count of the second pass: `min(2 * k, 15)`
enlarged_k(k) == Min(2 * k, HARD_CAP)

\* `if hits and confident_enough(hits, m, q)`
pass_accepted(h, m) == h # <<>> /\ confident_enough(h, m)

\* only the emptiness of the leftover hits is tested
no_evidence_hits_only(h, um) == h = <<>>

\* `if not hits or not used_mode`
no_evidence(h, um) == h = <<>> \/ um = "none"

\* the reply of the `except` branch
ui_error(e) == <<UIERR>> \o e

\* the citation post-check: the [answer, sources] shown
post_check(a, s) ==
    IF ~has_citation(a) THEN [answer |-> Sentinel, sources |-> EmptySrc]
    ELSE [answer |-> a, sources |-> s]

Say(role, content) == [role |-> role, content |-> content]

\* a question that takes the retrieval path
AskCall(mode, k) ==
    /\ pc = "idle"
    /\ pc' = "ask_search"
    /\ entry' = "ask"
    /\ req' = [mode |-> mode, k |-> k, require_citation |-> TRUE]
    /\ chat_history' = Append(chat_history, Say("user", Question))
    /\ mi' = 1
    /\ pass' = 1
    /\ UNCHANGED <<arg, ret>>
    /\ UNCHANGED <<hits, attempts, used_mode, evidence, src, gens, answer,
                   sources, diag>>

\* one pass of the loop: try_search gave h, then everything up to the next
\* backend call
AskPass(h) ==
    LET m == modes_to_try(req.mode)[mi]
        top_k == IF pass = 1 THEN req.k ELSE enlarged_k(req.k)
        acc == pass_accepted(h, m)
        last == pass = 2 /\ mi = Len(modes_to_try(req.mode))
        um == IF acc THEN m ELSE used_mode
    IN  /\ pc = "ask_search"
        /\ hits' = h
        /\ attempts' = Append(attempts, Attempt(m, top_k, acc))
        /\ used_mode' = um
        /\ IF acc \/ last
           THEN IF no_evidence(h, um)
                THEN /\ answer' = Sentinel
                     /\ sources' = EmptySrc
                     /\ chat_history' = Append(chat_history, Say("assistant", Sentinel))
                     /\ pc' = "done"
                     /\ UNCHANGED <<evidence, src, mi, pass>>
                ELSE /\ evidence' = build_context(h).blocks
                     /\ src' = build_context(h).src
                     /\ pc' = "ask_gen"
                     /\ UNCHANGED <<answer, sources, chat_history, mi, pass>>
           ELSE /\ mi' = IF pass = 1 THEN mi ELSE mi + 1
                /\ pass' = IF pass = 1 THEN 2 ELSE 1
                /\ UNCHANGED <<pc, evidence, src, answer, sources, chat_history>>
        /\ Observed(h)
        /\ UNCHANGED <<entry, req, gens, diag>>

AskSearch(h) ==
    /\ pc = "ask_search"
    /\ h \in HitLists(IF pass = 1 THEN req.k ELSE enlarged_k(req.k))
    /\ AskPass(h)

\* try_search without its `except`: the exception leaves ask
AskSearchPropagates ==
    /\ pc = "ask_search"
    /\ pc' = "raised"
    /\ UNCHANGED <<entry, req, hits, attempts, mi, pass, used_mode, evidence,
                   src, gens, answer, sources, diag, chat_history, arg, ret>>

\* query_weaviate raises: try_search catches it and returns []
AskSearchRaises ==
    /\ pc = "ask_search"
    /\ AskPass(<<>>)

\* the reply a is checked, shown and recorded
AskReturn(a, s) ==
    LET r == post_check(a, s)
    IN  /\ answer' = r.answer
        /\ sources' = r.sources
        /\ chat_history' = Append(chat_history, Say("assistant", r.answer))
        /\ pc' = "done"

\* call_ollama returns raw
AskGen(raw) ==
    /\ pc = "ask_gen"
    /\ gens' = Append(gens, GenCall(UI_TOKENS, build_prompt(evidence), FALSE, raw))
    /\ AskReturn(py_strip(strip_think(raw)), src)
    /\ UNCHANGED <<arg, ret>>
    /\ UNCHANGED <<entry, req, hits, attempts, mi, pass, used_mode, evidence,
                   src, diag>>

\* call_ollama raises e
AskGenRaises(e) ==
    /\ pc = "ask_gen"
    /\ gens' = Append(gens, GenCall(UI_TOKENS, build_prompt(evidence), TRUE, e))
    /\ AskReturn(ui_error(e), EmptySrc)
    /\ UNCHANGED <<arg, ret>>
    /\ UNCHANGED <<entry, req, hits, attempts, mi, pass, used_mode, evidence,
                   src, diag>>

\* ----------------------------------------------------------- specification
Next ==
    \/ \E mode \in Modes, k \in 1..MaxK, rc \in BOOLEAN : RagCall(mode, k, rc)
    \/ \E h \in HitLists(req.k) : RagQuery(h)
    \/ RagQueryRaises
    \/ \E raw \in GenResponses : RagGen1(raw)
    \/ \E raw \in GenResponses : RagGen2(raw)
    \/ \E e \in ErrMessages : RagGenRaises(e)
    \/ \E mode \in Modes, k \in 1..MaxK : AskCall(mode, k)
    \/ \E h \in HitLists(HARD_CAP) : AskSearch(h)
    \/ AskSearchRaises
    \/ \E raw \in GenResponses : AskGen(raw)
    \/ \E e \in ErrMessages : AskGenRaises(e)

Spec == Init /\ [][Next]_vars

\* ask alone, every backend call of its retrieval loop returning or raising
\* in the end
AskNext ==
    \/ \E mode \in Modes, k \in 1..MaxK : AskCall(mode, k)
    \/ \E h \in HitLists(HARD_CAP) : AskSearch(h)
    \/ AskSearchRaises
    \/ \E raw \in GenResponses : AskGen(raw)
    \/ \E e \in ErrMessages : AskGenRaises(e)

SpecAskFair ==
    /\ Init
    /\ [][AskNext]_vars
    /\ WF_vars((\E h \in HitLists(HARD_CAP) : AskSearch(h)) \/ AskSearchRaises)

\* ------------------------------------------- the pipeline run three times
\* A first request on a fresh process, any earlier request after it, then
\* the first request again with the backends answering as they did the
\* first time (mocked backends). `ret` keeps the first run, `arg` the
\* retrieval responses of the running call.
TwinPhase == IF "phase" \in DOMAIN ret THEN ret.phase ELSE "first"

\* the canned responses of the mocked backends
TwinHitLists == { <<>>, <<Hit(Num(10), None)>>, <<Hit(Num(35), None)>> }
TwinGenResponses == { <<>>, <<W>>, <<W, SP, Cite(1)>> }

TwinInit ==
    /\ Standalone("idle")
    /\ arg = [log |-> <<>>]
    /\ ret = NoArg

\* the rerun repeats the request of the first run
RepeatsCall(e, r) ==
    TwinPhase = "rerun" => (ret.entry = e /\ ret.req = r)

\* in the rerun the backends answer call number j as in the first run; a
\* call the first run never made is answered freely
RepeatsHits(h) ==
    (TwinPhase = "rerun" /\ Len(attempts) < Len(ret.log))
        => h = ret.log[Len(attempts) + 1]
RepeatsGen(raised, out) ==
    (TwinPhase = "rerun" /\ Len(gens) < Len(ret.gens))
        => (ret.gens[Len(gens) + 1].raised = raised /\ ret.gens[Len(gens) + 1].out = out)

\* the locals of a call carried over into the next call: used_mode survives
AgainStaleUsedMode ==
    /\ pc = "done"
    /\ TwinPhase \in {"first", "earlier"}
    /\ ret' = IF TwinPhase = "first"
              THEN [phase |-> "earlier", entry |-> entry, req |-> req, log |-> arg.log,
                    gens |-> gens, answer |-> answer, sources |-> sources]
              ELSE [ret EXCEPT !.phase = "rerun"]
    /\ arg' = IF TwinPhase = "first" THEN NoArg ELSE [log |-> <<>>]
    /\ pc' = "idle"
    /\ entry' = "none"
    /\ req' = NoReq
    /\ hits' = <<>>
    /\ attempts' = <<>>
    /\ mi' = 0
    /\ pass' = 0
    /\ evidence' = <<>>
    /\ src' = EmptySrc
    /\ gens' = <<>>
    /\ answer' = EmptyText
    /\ sources' = EmptySrc
    /\ diag' = NoDiag
    /\ UNCHANGED <<used_mode, chat_history>>

\* the call has returned and the next request arrives: the locals of
\* rag_answer and ask start afresh, the module-level chat_history stays
Again ==
    /\ pc = "done"
    /\ TwinPhase \in {"first", "earlier"}
    /\ ret' = IF TwinPhase = "first"
              THEN [phase |-> "earlier", entry |-> entry, req |-> req, log |-> arg.log,
                    gens |-> gens, answer |-> answer, sources |-> sources]
              ELSE [ret EXCEPT !.phase = "rerun"]
    /\ arg' = IF TwinPhase = "first" THEN NoArg ELSE [log |-> <<>>]
    /\ pc' = "idle"
    /\ entry' = "none"
    /\ req' = NoReq
    /\ hits' = <<>>
    /\ attempts' = <<>>
    /\ mi' = 0
    /\ pass' = 0
    /\ used_mode' = "none"
    /\ evidence' = <<>>
    /\ src' = EmptySrc
    /\ gens' = <<>>
    /\ answer' = EmptyText
    /\ sources' = EmptySrc
    /\ diag' = NoDiag
    /\ UNCHANGED chat_history

TwinNext ==
    \/ \E mode \in Modes, rc \in BOOLEAN :
          /\ RepeatsCall("rag_answer", [mode |-> mode, k |-> 1, require_citation |-> rc])
          /\ RagCall(mode, 1, rc)
    \/ \E h \in TwinHitLists : RepeatsHits(h) /\ RagQuery(h)
    \/ (TwinPhase # "rerun" /\ RagQueryRaises)
    \/ \E raw \in TwinGenResponses : RepeatsGen(FALSE, raw) /\ RagGen1(raw)
    \/ \E raw \in TwinGenResponses : RepeatsGen(FALSE, raw) /\ RagGen2(raw)
    \/ \E e \in ErrMessages : RepeatsGen(TRUE, e) /\ RagGenRaises(e)
    \/ \E mode \in Modes :
          /\ RepeatsCall("ask", [mode |-> mode, k |-> 1, require_citation |-> TRUE])
          /\ AskCall(mode, 1)
    \/ \E h \in TwinHitLists : RepeatsHits(h) /\ AskSearch(h)
    \/ (RepeatsHits(<<>>) /\ AskSearchRaises)
    \/ \E raw \in TwinGenResponses : RepeatsGen(FALSE, raw) /\ AskGen(raw)
    \/ \E e \in ErrMessages : RepeatsGen(TRUE, e) /\ AskGenRaises(e)
    \/ Again

SpecTwin == TwinInit /\ [][TwinNext]_vars

\* ------------------------------------------------- the scorers on their own
\* what `_additional` can hold under "score" or "distance": nothing, a value
\* float() rejects, or a number (in hundredths)
Signals == {None, Bad} \cup { Num(25 * j - 25) : j \in 0..MaxSignal }
ScoredHits == { Hit(sc, dist) : sc \in Signals, dist \in Signals }

ConfInit ==
    /\ Standalone("conf_in")
    /\ arg \in ScoredHits
    /\ ret = NoArg

\* _conf(arg) returns
ConfCall ==
    /\ pc = "conf_in"
    /\ pc' = "conf_out"
    /\ ret' = [fn |-> "_conf", v |-> conf(arg)]
    /\ UNCHANGED <<entry, req, hits, attempts, mi, pass, used_mode, evidence,
                   src, gens, answer, sources, diag, chat_history, arg>>

\* hit_confidence(arg) returns
HitConfidenceCall ==
    /\ pc = "conf_in"
    /\ pc' = "conf_out"
    /\ ret' = [fn |-> "hit_confidence", v |-> hit_confidence(arg)]
    /\ UNCHANGED <<entry, req, hits, attempts, mi, pass, used_mode, evidence,
                   src, gens, answer, sources, diag, chat_history, arg>>

ConfNext == ConfCall \/ HitConfidenceCall

SpecConf == ConfInit /\ [][ConfNext]_vars

\* --------------------------------------------------- the gates on their own
\* hits just below, at and just above the gate, by score and by distance
GatePool ==
    { Hit(Num(34), None), Hit(Num(35), None), Hit(Num(36), None),
      Hit(None, Num(66)), Hit(None, Num(65)), Hit(Bad, Num(64)), Hit(None, None) }

GateInit ==
    /\ Standalone("gate_in")
    /\ arg \in [hits : SeqsUpTo(GatePool, MaxHits), mode : Modes]
    /\ ret = NoArg

\* _ok(hits, mode) returns
OkCall ==
    /\ pc = "gate_in"
    /\ pc' = "gate_out"
    /\ ret' = [fn |-> "_ok", v |-> ok(arg.hits, arg.mode)]
    /\ UNCHANGED <<entry, req, hits, attempts, mi, pass, used_mode, evidence,
                   src, gens, answer, sources, diag, chat_history, arg>>

\* confident_enough(hits, mode, q) returns
ConfidentEnoughCall ==
    /\ pc = "gate_in"
    /\ pc' = "gate_out"
    /\ ret' = [fn |-> "confident_enough", v |-> confident_enough(arg.hits, arg.mode)]
    /\ UNCHANGED <<entry, req, hits, attempts, mi, pass, used_mode, evidence,
                   src, gens, answer, sources, diag, chat_history, arg>>

GateNext == OkCall \/ ConfidentEnoughCall

SpecGate == GateInit /\ [][GateNext]_vars

\* --------------------------------------- the context assemblers on their own
\* the ranked hits handed to a context assembler: any order, repeats allowed
CtxInit ==
    /\ Standalone("ctx_in")
    /\ arg \in SeqsUpTo(HitPool, MaxHits + 1)
    /\ ret = NoArg

\* _ctx(arg) returns
CtxCall ==
    /\ pc = "ctx_in"
    /\ pc' = "ctx_out"
    /\ ret' = [fn |-> "_ctx", v |-> ctx(arg)]
    /\ UNCHANGED <<entry, req, hits, attempts, mi, pass, used_mode, evidence,
                   src, gens, answer, sources, diag, chat_history, arg>>

\* build_context(arg) returns
BuildContextCall ==
    /\ pc = "ctx_in"
    /\ pc' = "ctx_out"
    /\ ret' = [fn |-> "build_context", v |-> build_context(arg)]
    /\ UNCHANGED <<entry, req, hits, attempts, mi, pass, used_mode, evidence,
                   src, gens, answer, sources, diag, chat_history, arg>>

CtxNext == CtxCall \/ BuildContextCall

SpecCtx == CtxInit /\ [][CtxNext]_vars

\* ------------------------------------------- the cleaning steps on their own
\* what a raw generated text is made of: words, blanks, the think tags, a
\* "Sources:" line after a newline or at the very start, a citation
RawTokens == {W, SP, TH, ET, SRC, SRCW, Cite(1)}

StripInit ==
    /\ Standalone("strip_in")
    /\ arg \in SeqsUpTo(RawTokens, MaxLen)
    /\ ret = NoArg

\* _strip(arg) returns
StripCall ==
    /\ pc = "strip_in"
    /\ pc' = "strip_out"
    /\ ret' = [fn |-> "_strip", v |-> strip(arg)]
    /\ UNCHANGED <<entry, req, hits, attempts, mi, pass, used_mode, evidence,
                   src, gens, answer, sources, diag, chat_history, arg>>

\* strip_think(arg).strip() returns
StripThinkCall ==
    /\ pc = "strip_in"
    /\ pc' = "strip_out"
    /\ ret' = [fn |-> "strip_think", v |-> py_strip(strip_think(arg))]
    /\ UNCHANGED <<entry, req, hits, attempts, mi, pass, used_mode, evidence,
                   src, gens, answer, sources, diag, chat_history, arg>>

StripNext == StripCall \/ StripThinkCall

SpecStrip == StripInit /\ [][StripNext]_vars

\* ------------------------------------------- backend_core.health_check
\* how the search backend behaves: it answers, the client cannot be built
\* (connection refused, start-up time-out), or schema.get() fails
WeaviateStates == {"up", "connect_refused", "startup_timeout", "schema_refused", "schema_status"}
WeaviateConnectFailures == {"connect_refused", "startup_timeout"}
\* how the generation backend behaves: it answers 200, requests.get raises
\* (refused, time-out), or raise_for_status raises (404, 500)
OllamaStates == {"up", "refused", "timeout", "status_404", "status_500"}
OllamaGetFailures == {"refused", "timeout"}

HealthInit ==
    /\ Standalone("hc_start")
    /\ arg \in [weaviate : WeaviateStates, ollama : OllamaStates]
    /\ ret = NoArg

\* `ok_w=ok_o=False`
HcStart ==
    /\ pc = "hc_start"
    /\ ret' = [weaviate |-> FALSE, ollama |-> FALSE]
    /\ pc' = "hc_client"
    /\ UNCHANGED <<entry, req, hits, attempts, mi, pass, used_mode, evidence,
                   src, gens, answer, sources, diag, chat_history, arg>>

\* one try block around both probes: a failure of the first ends the check
HcClientOneTry ==
    /\ pc = "hc_client"
    /\ pc' = IF arg.weaviate \in WeaviateConnectFailures THEN "hc_done" ELSE "hc_schema"
    /\ UNCHANGED <<entry, req, hits, attempts, mi, pass, used_mode, evidence,
                   src, gens, answer, sources, diag, chat_history, arg, ret>>

\* `_w()`: an exception is swallowed by `except: pass`
HcClient ==
    /\ pc = "hc_client"
    /\ pc' = IF arg.weaviate \in WeaviateConnectFailures THEN "hc_get" ELSE "hc_schema"
    /\ UNCHANGED <<entry, req, hits, attempts, mi, pass, used_mode, evidence,
                   src, gens, answer, sources, diag, chat_history, arg, ret>>

\* `.schema.get(); ok_w=True`, an exception swallowed
HcSchema ==
    /\ pc = "hc_schema"
    /\ ret' = [ret EXCEPT !.weaviate = (arg.weaviate = "up")]
    /\ pc' = "hc_get"
    /\ UNCHANGED <<entry, req, hits, attempts, mi, pass, used_mode, evidence,
                   src, gens, answer, sources, diag, chat_history, arg>>

\* `r=requests.get(..., timeout=5)`, an exception swallowed
HcGet ==
    /\ pc = "hc_get"
    /\ pc' = IF arg.ollama \in OllamaGetFailures THEN "hc_done" ELSE "hc_status"
    /\ UNCHANGED <<entry, req, hits, attempts, mi, pass, used_mode, evidence,
                   src, gens, answer, sources, diag, chat_history, arg, ret>>

\* `r.raise_for_status(); ok_o=True`, an exception swallowed; then the return
HcStatus ==
    /\ pc = "hc_status"
    /\ ret' = [ret EXCEPT !.ollama = (arg.ollama = "up")]
    /\ pc' = "hc_done"
    /\ UNCHANGED <<entry, req, hits, attempts, mi, pass, used_mode, evidence,
                   src, gens, answer, sources, diag, chat_history, arg>>

HealthNext == HcStart \/ HcClient \/ HcSchema \/ HcGet \/ HcStatus

SpecHealth == HealthInit /\ [][HealthNext]_vars

\* ------------------------------------- the handlers sharing chat_history
\* the two event listeners bound to ask (button click, text submit): each
\* runs its calls one after the other on a worker thread of its own, and
\* clear_chat runs on a third
Listeners == {"click", "submit"}
QuestionOf(l, n) == [listener |-> l, n |-> n]

ChatInit ==
    /\ Standalone("serving")
    /\ arg = [l \in Listeners |-> [at |-> "idle", n |-> 0]]
    /\ ret = NoArg

\* ask up to `chat_history.append({"role": "user", ...})`
ChatAskUser(l) ==
    /\ arg[l].at = "idle"
    /\ arg[l].n < MaxAsks
    /\ chat_history' = Append(chat_history, Say("user", QuestionOf(l, arg[l].n + 1)))
    /\ arg' = [arg EXCEPT ![l] = [at |-> "answering", n |-> arg[l].n + 1]]
    /\ UNCHANGED <<pc, entry, req, hits, attempts, mi, pass, used_mode, evidence,
                   src, gens, answer, sources, diag, ret>>

\* the rest of ask: `chat_history.append({"role": "assistant", ...})` with
\* the reply to the question of this call, and the return
ChatAskAssistant(l) ==
    /\ arg[l].at = "answering"
    /\ chat_history' = Append(chat_history, Say("assistant", QuestionOf(l, arg[l].n)))
    /\ arg' = [arg EXCEPT ![l].at = "idle"]
    /\ UNCHANGED <<pc, entry, req, hits, attempts, mi, pass, used_mode, evidence,
                   src, gens, answer, sources, diag, ret>>

\* clear_chat: `chat_history = []`
ClearChat ==
    /\ chat_history' = <<>>
    /\ UNCHANGED <<pc, entry, req, hits, attempts, mi, pass, used_mode, evidence,
                   src, gens, answer, sources, diag, arg, ret>>

ChatNext ==
    \/ \E l \in Listeners : ChatAskUser(l)
    \/ \E l \in Listeners : ChatAskAssistant(l)
    \/ ClearChat

SpecChat == ChatInit /\ [][ChatNext]_vars

\* ------------------------------------------------------------------ claims
NoneAccepted == \A j \in 1..Len(attempts) : ~attempts[j].accepted
\* the gate of a strategy, in hundredths
GateOf(m) == IF m \in {"hybrid", "bm25"} THEN 35 ELSE 35
IsErrorReply(a) == a # <<>> /\ a[1] \in {GENERR, UIERR}
IsBlank(raw) == \A j \in 1..Len(raw) : raw[j] = SP
Returned == pc = "done"

C2_GenerationOnlyAfterAcceptance ==
    gens # <<>> =>
        /\ attempts # <<>>
        /\ attempts[Len(attempts)].accepted
        /\ hits # <<>>
        /\ \E j \in 1..Len(hits) :
              conf(hits[j]) >= GateOf(attempts[Len(attempts)].mode)

\* Scenario B: every attempt of every strategy returned hits of score 0.1
C2_Witness ==
    /\ entry = "ask" /\ Returned /\ Len(attempts) = 6
    /\ hits = <<Hit(Num(10), None), Hit(Num(10), None)>>
    /\ gens = <<>> /\ answer = Sentinel

\* C3: when the top hit of the preferred strategy at the requested k reaches
\* the gate, ask makes exactly one retrieval call: the first attempt is
\* accepted and no retrieval call follows it.
C3_FastPath ==
    [][ /\ ( /\ entry = "ask" /\ attempts = <<>> /\ attempts' # <<>>
             /\ hits' # <<>> /\ conf(hits'[1]) >= GateOf(req.mode) )
           => ( /\ Len(attempts') = 1
                /\ attempts'[1] = [mode |-> req.mode, k |-> req.k, accepted |-> TRUE]
                /\ pc' = "ask_gen" )
        /\ ( entry = "ask" /\ attempts # <<>> /\ attempts[1].accepted )
           => attempts' = attempts
      ]_vars

\* the top hit passed, a lower-ranked hit did not, and one call was made
C3_Witness ==
    /\ entry = "ask" /\ Returned /\ Len(attempts) = 1
    /\ Len(hits) = 2 /\ conf(hits[1]) >= 35 /\ conf(hits[2]) < 35

\* C4: ask tries the preferred strategy first, then the other two in the
\* relative order hybrid, bm25, vector; each strategy once (two passes each).
C4_StrategyOrder ==
    entry = "ask" =>
        LET order == CASE req.mode = "hybrid" -> <<"hybrid", "bm25", "vector">>
                       [] req.mode = "bm25" -> <<"bm25", "hybrid", "vector">>
                       [] req.mode = "vector" -> <<"vector", "hybrid", "bm25">>
        IN  /\ Len(attempts) <= 6
            /\ \A j \in 1..Len(attempts) : attempts[j].mode = order[(j + 1) \div 2]

\* vector preferred, every strategy tried
C4_Witness ==
    /\ entry = "ask" /\ req.mode = "vector" /\ Len(attempts) = 6
    /\ attempts[3].mode = "hybrid" /\ attempts[5].mode = "bm25"

\* C5: the first attempt of every strategy uses the requested k; when it is
\* not accepted the same strategy is retried once with min(2k, 15) before
\* the next strategy is attempted.
C5_EnlargedRetry ==
    entry = "ask" =>
        /\ \A j \in 1..Len(attempts) :
              IF j % 2 = 1
              THEN /\ attempts[j].k = req.k
                   /\ j > 1 => /\ ~attempts[j - 1].accepted
                               /\ attempts[j].mode # attempts[j - 1].mode
              ELSE /\ attempts[j].k = (IF 2 * req.k <= 15 THEN 2 * req.k ELSE 15)
                   /\ ~attempts[j - 1].accepted
                   /\ attempts[j].mode = attempts[j - 1].mode
        /\ (pc \in {"ask_gen", "done"} /\ Len(attempts) % 2 = 1)
              => attempts[Len(attempts)].accepted

\* a retry capped at 15 and a retry at 2k, each followed by the next strategy
C5_Witness ==
    /\ entry = "ask" /\ Len(attempts) >= 3
    /\ \/ req.k = 8 /\ attempts[2].k = 15
       \/ req.k = 2 /\ attempts[2].k = 4

\* C6: at the pipeline boundary, when the preferred strategy fails the gate
\* on both attempts the pipeline advances to the later strategies: it does
\* not answer the sentinel for lack of evidence before every strategy had
\* its attempts, and an accepted later strategy leads to generation on that
\* strategy's hits.
C6_BoundaryFallsBack ==
    /\ (Returned /\ NoneAccepted)
          => \A m \in Modes : \E j \in 1..Len(attempts) : attempts[j].mode = m
    /\ (Len(attempts) > 2 /\ attempts[Len(attempts)].accepted)
          => /\ pc \in {"ask_gen", "rag_gen1", "rag_gen2", "done"}
             /\ evidence = Listing(hits)
             /\ Returned => gens # <<>>

\* C7: with require_citation, a returned answer that is neither the sentinel
\* nor an error message carries at least one bracketed integer citation.
C7_CitedOrSentinel ==
    (Returned /\ req.require_citation /\ answer # Sentinel /\ ~IsErrorReply(answer))
        => \E j \in 1..Len(answer) : answer[j].t = "cite"

\* rag_answer got an uncited text and returned it with [1] appended
C7_Witness ==
    /\ entry = "rag_answer" /\ Returned /\ req.require_citation
    /\ Len(gens) = 1 /\ gens[1].out = <<W>> /\ answer = <<W, SP, Cite(1)>>

\* C8: every citation [i] of an answer returned with a sources listing of n
\* entries satisfies 1 <= i <= n.
C8_CitationsInRange ==
    (Returned /\ sources.text = "list")
        => \A j \in 1..Len(answer) :
              answer[j].t = "cite" => answer[j].i \in 1..Len(sources.lines)

\* C9: the answer rag_answer returns is never empty or whitespace-only.
C9_NeverEmpty ==
    (entry = "rag_answer" /\ Returned)
        => \E j \in 1..Len(answer) : answer[j] # SP

\* C10: a blank first generation (1200 tokens, plain prompt) is followed by
\* exactly one retry (same prompt plus the brief instruction, 400 tokens)
\* whose cleaned text is what is validated and returned; there are never
\* more than two calls and no retry after a non-empty first cleaned text.
C10_SingleRetry ==
    entry = "rag_answer" =>
        /\ Len(gens) <= 2
        /\ Len(gens) >= 1
              => gens[1].max_tokens = 1200
                 /\ gens[1].prompt = [sources |-> evidence, brief |-> FALSE]
        /\ (Len(gens) >= 1 /\ ~gens[1].raised /\ IsBlank(gens[1].out))
              => (pc = "rag_gen2" \/ Len(gens) = 2)
        /\ Len(gens) = 2
              => /\ ~gens[1].raised
                 /\ strip(gens[1].out) = <<>>
                 /\ gens[2].max_tokens = 400
                 /\ gens[2].prompt = [sources |-> evidence, brief |-> TRUE]
        /\ (Returned /\ Len(gens) = 2 /\ ~gens[2].raised)
              => [answer |-> answer, sources |-> sources]
                    = rag_validate(strip(gens[2].out), src, req.require_citation)

\* Scenario C: empty first answer, the retry's text is returned
C10_Witness ==
    /\ entry = "rag_answer" /\ Returned /\ Len(gens) = 2
    /\ gens[1].out = <<>> /\ gens[2].out = <<W, SP, Cite(1)>>
    /\ answer = <<W, SP, Cite(1)>> /\ sources.text = "list"

\* C11: when the generation backend returns empty text on the first attempt
\* and on the retry, rag_answer reports a generation error: the answer is an
\* error message and no sources are returned with it.
C11_EmptyTwiceIsError ==
    ( /\ entry = "rag_answer" /\ Returned /\ Len(gens) = 2
      /\ ~gens[1].raised /\ ~gens[2].raised
      /\ IsBlank(gens[1].out) /\ IsBlank(gens[2].out) )
        => (IsErrorReply(answer) /\ sources = EmptySrc)

\* C12: when a generation call raises, the answer of rag_answer and the
\* reply of ask differ from the sentinel, and the sources are empty.
C12_GenerationErrorDistinct ==
    (Returned /\ gens # <<>> /\ gens[Len(gens)].raised)
        => (answer # Sentinel /\ sources = EmptySrc)

\* C13: in ask a retrieval call that raises is handled as one that returns
\* no hits: the exception never leaves the orchestrator, and every raising
\* step is a step of the empty result (same attempt logged, same next pass,
\* same outcome), so what follows is the same.
C13_RaisingIsEmpty ==
    /\ [](entry = "ask" => pc # "raised")
    /\ [][ AskSearchRaises
             => /\ AskSearch(<<>>)
                /\ hits' = <<>>
                /\ Len(attempts') = Len(attempts) + 1
                /\ ~attempts'[Len(attempts')].accepted
                /\ pc' \in {"ask_search", "done"}
                /\ pc' = "done" => (answer' = Sentinel /\ sources' = EmptySrc)
         ]_vars

\* a first attempt raised or came back empty; the enlarged retry is next
C13_Witness ==
    /\ entry = "ask" /\ pc = "ask_search" /\ hits = <<>>
    /\ Len(attempts) = 1 /\ pass = 2 /\ mi = 1

\* C14: rag_answer never propagates an exception of the search backend: a
\* failed retrieval is handled as an empty hit sequence and the call returns.
C14_RetrievalNeverRaises ==
    entry = "rag_answer" => pc # "raised"

\* clamp(x, 0, 1) in hundredths
Clamp01(x) == IF x < 0 THEN 0 ELSE IF x > 100 THEN 100 ELSE x

\* C15: the scorer returns the score when one is present and parseable,
\* otherwise clamp(1 - distance, 0, 1) when a distance is present and
\* parseable, otherwise 0; an unparseable field counts as absent and the
\* scorer still returns a number.
C15_ScorerRule ==
    pc = "conf_out" =>
        /\ ret.v \in Int
        /\ arg.score.tag = "num" => ret.v = arg.score.v
        /\ (arg.score.tag # "num" /\ arg.distance.tag = "num")
              => ret.v = Clamp01(100 - arg.distance.v)
        /\ (arg.score.tag # "num" /\ arg.distance.tag # "num") => ret.v = 0

\* _conf scored a hit with a malformed score from its distance
C15_Witness ==
    /\ pc = "conf_out" /\ ret.fn = "_conf"
    /\ arg.score = Bad /\ arg.distance = Num(25) /\ ret.v = 75

\* C16: whatever signal the hit carries, the confidence lies in [0, 1].
C16_ConfidenceInUnitInterval ==
    pc = "conf_out" => (0 <= ret.v /\ ret.v <= 100)

RagValidated ==
    entry = "rag_answer" /\ Returned /\ gens # <<>> /\ ~gens[Len(gens)].raised
\* the cleaned text the validation of rag_answer starts from
Cleaned == strip(gens[Len(gens)].out)

\* C18 as stated: with require_citation an uncited cleaned text comes back
\* with " [1]" appended when sources exist and as the sentinel with empty
\* sources when none exist; without require_citation no citation is added.
C18_CitationAppended ==
    (RagValidated /\ ~has_citation(Cleaned)) =>
        IF req.require_citation
        THEN IF src.text # ""
             THEN answer = py_strip(rstrip(Cleaned) \o <<SP, Cite(1)>>)
             ELSE answer = Sentinel /\ sources = EmptySrc
        ELSE ~has_citation(answer)

\* C18, amended: the same for a cleaned text that does not mention the
\* denylisted term; past the gate the sources listing is never empty, so
\* the citation is always appended and the sources come back with it.
C18_CitationAppendedUnlessDenylisted ==
    (RagValidated /\ ~has_citation(Cleaned) /\ ~mentions_autocad(Cleaned)) =>
        /\ src.text # ""
        /\ sources = src
        /\ IF req.require_citation
           THEN answer = py_strip(rstrip(Cleaned) \o <<SP, Cite(1)>>)
           ELSE answer = Cleaned

\* an uncited answer came back with [1] appended
C18_Witness ==
    /\ RagValidated /\ req.require_citation
    /\ gens[Len(gens)].out = <<W>>
    /\ answer = <<W, SP, Cite(1)>>
    /\ sources # EmptySrc

\* C19: a cleaned answer that mentions the denylisted term is answered by
\* the sentinel with empty sources, cited or not, whatever require_citation.
C19_DenylistSentinel ==
    (RagValidated /\ \E j \in 1..Len(Cleaned) : Cleaned[j] = AC) =>
        (answer = Sentinel /\ sources = EmptySrc)

\* a cited answer that mentions the term was rejected without enforcement
C19_Witness ==
    /\ RagValidated /\ ~req.require_citation
    /\ gens[Len(gens)].out = <<W, SP, AC, Cite(1)>>
    /\ has_citation(Cleaned)
    /\ answer = Sentinel /\ sources = EmptySrc

\* the generated text is what C20 is about: not blank, cited, no denylisted
\* term, no think segment, no Sources section
PlainCited(raw) ==
    /\ ~IsBlank(raw)
    /\ has_citation(raw)
    /\ \A j \in 1..Len(raw) : raw[j] \notin {AC, TH, ET, SRC}

\* one listing entry per hit, in rank order, and the best confidence
SourcesAndDiagOfHits ==
    /\ Len(sources.lines) = Len(hits)
    /\ \A j \in 1..Len(hits) : sources.lines[j] = [i |-> j, hit |-> hits[j]]
    /\ diag.hits = Len(hits)
    /\ \A j \in 1..Len(hits) : conf(hits[j]) <= diag.best_conf
    /\ \E j \in 1..Len(hits) : conf(hits[j]) = diag.best_conf

\* C20 as stated: such a text from the first generation call is returned
\* unchanged, with one source entry per hit and the best confidence.
C20_HappyPathUnchanged ==
    (RagValidated /\ Len(gens) = 1 /\ PlainCited(gens[1].out)) =>
        (answer = gens[1].out /\ SourcesAndDiagOfHits)

\* C20, amended: the text is returned with its surrounding white space
\* removed and otherwise unchanged.
C20_HappyPathTrimmed ==
    (RagValidated /\ Len(gens) = 1 /\ PlainCited(gens[1].out)) =>
        (answer = py_strip(gens[1].out) /\ SourcesAndDiagOfHits)

\* two hits, the second the better one: two entries, its confidence
C20_Witness ==
    /\ RagValidated /\ Len(gens) = 1
    /\ gens[1].out = <<W, SP, Cite(1)>> /\ answer = <<W, SP, Cite(1)>>
    /\ hits = <<Hit(Num(10), None), Hit(None, Num(20))>>
    /\ Len(sources.lines) = 2 /\ diag.best_conf = 80

\* C21: whatever way rag_answer returns, the diagnostics name the strategy
\* of the retrieval that was judged, the number of hits it returned and the
\* best confidence over them (0 when there are none).
C21_DiagnosticsOnEveryReturn ==
    (entry = "rag_answer" /\ Returned) =>
        /\ Len(attempts) = 1
        /\ diag.mode = attempts[1].mode
        /\ diag.mode = req.mode
        /\ diag.hits = Len(hits)
        /\ hits = <<>> => diag.best_conf = 0
        /\ \A j \in 1..Len(hits) : conf(hits[j]) <= diag.best_conf
        /\ hits # <<>> => \E j \in 1..Len(hits) : conf(hits[j]) = diag.best_conf

\* a generation error after a vector retrieval of two hits
C21_Witness ==
    /\ entry = "rag_answer" /\ Returned /\ IsErrorReply(answer)
    /\ req.mode = "vector" /\ diag.mode = "vector"
    /\ diag.hits = 2 /\ diag.best_conf = 80

\* C23: for hits h1..hn the evidence block and the sources listing have n
\* entries each, and entry i of both carries the tag [i] and renders hit i
\* of the received order: nothing is re-sorted, dropped or deduplicated.
C23_ContextLockstep ==
    pc = "ctx_out" =>
        /\ Len(ret.v.blocks) = Len(arg)
        /\ Len(ret.v.src.lines) = Len(arg)
        /\ \A j \in 1..Len(arg) :
              /\ ret.v.blocks[j].i = j /\ ret.v.blocks[j].hit = arg[j]
              /\ ret.v.src.lines[j].i = j /\ ret.v.src.lines[j].hit = arg[j]

\* _ctx rendered three hits, the first and the last the same unscored hit,
\* the best one in the middle
C23_Witness ==
    /\ pc = "ctx_out" /\ ret.fn = "_ctx"
    /\ arg = <<Hit(None, None), Hit(Num(35), None), Hit(None, None)>>
    /\ Len(ret.v.src.lines) = 3 /\ ret.v.blocks[3].i = 3

\* a think segment, closed or running to the end, starts with the open tag
HasThinkSegment(s) == \E j \in 1..Len(s) : s[j] = TH
\* a section introduced by a "Sources:" line: the line opens after a
\* newline or is the first line of the text
HasSourcesSection(s) ==
    \/ \E j \in 1..Len(s) : s[j] = SRC
    \/ (s # <<>> /\ s[1] = SRCW)

\* C24: for every raw text, what _strip returns holds no think segment and
\* no section introduced by a "Sources:" line.
C24_CleanedHasNoThinkNoSources ==
    (pc = "strip_out" /\ ret.fn = "_strip") =>
        (~HasThinkSegment(ret.v) /\ ~HasSourcesSection(ret.v))

\* C25: health_check never raises and returns one boolean per backend, each
\* true exactly when that backend is up, whatever the other backend does.
C25_HealthIndependent ==
    /\ pc \in {"hc_start", "hc_client", "hc_schema", "hc_get", "hc_status", "hc_done"}
    /\ pc = "hc_done" =>
          ret = [weaviate |-> (arg.weaviate = "up"), ollama |-> (arg.ollama = "up")]

\* the search backend refuses the connection, the generation backend is up
C25_Witness ==
    /\ pc = "hc_done"
    /\ arg.weaviate = "connect_refused" /\ arg.ollama = "up"
    /\ ~ret.weaviate /\ ret.ollama

\* the retrieval loop of ask is over: generation started or ask returned
LoopOver == pc \in {"ask_gen", "done"}
AttemptsOf(m) == { j \in 1..Len(attempts) : attempts[j].mode = m }

\* C26: the retrieval loop of ask ends, accepted or exhausted, after at most
\* two attempts per strategy and six in all; the attempts of a strategy are
\* consecutive (an abandoned strategy is not tried again) and no attempt
\* follows an accepted one.
C26_OrchestratorTerminates ==
    /\ [](entry = "ask" =>
            /\ Len(attempts) <= 6
            /\ \A m \in Modes :
                  /\ Cardinality(AttemptsOf(m)) <= 2
                  /\ \A i, j \in AttemptsOf(m) : i <= j => j - i <= 1
            /\ \A j \in 1..(Len(attempts) - 1) : ~attempts[j].accepted
            /\ LoopOver =>
                  \/ attempts[Len(attempts)].accepted
                  \/ (Len(attempts) = 6 /\ NoneAccepted))
    /\ (pc = "ask_search") ~> LoopOver

\* exhausted: six attempts, none accepted, hits left over from the last one
C26_Witness ==
    /\ entry = "ask" /\ Returned /\ Len(attempts) = 6 /\ NoneAccepted
    /\ hits # <<>> /\ used_mode = "none"

\* C27: whenever rag_answer returns the sentinel as its answer, the sources
\* are empty, for either value of require_citation.
C27_SentinelHasNoSources ==
    (entry = "rag_answer" /\ Returned /\ answer = Sentinel) => sources = EmptySrc

\* C28: when the generation backend replies exactly the sentinel, rag_answer
\* with require_citation returns exactly the sentinel, with empty sources.
C28_SentinelReplyStaysSentinel ==
    (RagValidated /\ req.require_citation /\ Cleaned = Sentinel) =>
        (answer = Sentinel /\ sources = EmptySrc)

\* C29: in ask the evidence given to generation and the sources shown are
\* built from the hits of the accepting attempt, all of them and in their
\* order; without an accepted attempt nothing is generated and no sources
\* are shown, whatever hits the last attempt left.
C29_EvidenceFromAcceptingAttempt ==
    entry = "ask" =>
        /\ (pc = "ask_gen" \/ gens # <<>>) =>
              /\ attempts[Len(attempts)].accepted
              /\ hits # <<>>
              /\ evidence = Listing(hits)
              /\ src.lines = Listing(hits)
        /\ \A g \in 1..Len(gens) : gens[g].prompt.sources = Listing(hits)
        /\ (Returned /\ sources # EmptySrc) => sources.lines = Listing(hits)
        /\ NoneAccepted => (gens = <<>> /\ evidence = <<>> /\ sources = EmptySrc)

\* accepted on the fourth attempt with two different hits, answered with a
\* citation and both sources
C29_Witness ==
    /\ entry = "ask" /\ Returned /\ Len(attempts) = 4
    /\ Len(hits) = 2 /\ hits[1] # hits[2]
    /\ has_citation(answer)
    /\ sources.lines = Listing(hits)

\* C30: whatever the interleaving of the handlers, once no call is running
\* the history is a sequence of pairs, each a user message immediately
\* followed by the assistant reply to that same question.
C30_HistoryInPairs ==
    (pc = "serving" /\ \A l \in Listeners : arg[l].at = "idle") =>
        /\ Len(chat_history) % 2 = 0
        /\ \A j \in 1..Len(chat_history) :
              IF j % 2 = 1
              THEN /\ chat_history[j].role = "user"
                   /\ chat_history[j + 1].role = "assistant"
                   /\ chat_history[j + 1].content = chat_history[j].content
              ELSE chat_history[j].role = "assistant"

\* the citation indices of an answer
CiteSet(a) == { a[j].i : j \in { n \in 1..Len(a) : a[n].t = "cite" } }
\* s is a prefix of t
IsPrefix(s, t) == Len(s) <= Len(t) /\ \A j \in 1..Len(s) : s[j] = t[j]
GenResponseOf(g) == [raised |-> g.raised, out |-> g.out]
Responses(gs) == [j \in 1..Len(gs) |-> GenResponseOf(gs[j])]

\* the rerun has returned, it was the request of the first run and the two
\* backends answered every call as they answered it in the first run
SameRunAgain ==
    /\ TwinPhase = "rerun" /\ Returned
    /\ entry = ret.entry /\ req = ret.req
    /\ (IsPrefix(arg.log, ret.log) \/ IsPrefix(ret.log, arg.log))
    /\ (IsPrefix(Responses(gens), Responses(ret.gens))
          \/ IsPrefix(Responses(ret.gens), Responses(gens)))

\* C22: a request repeated with the same arguments and the same backend
\* responses has the outcome of its first run, whatever was asked in
\* between: sentinel or grounded, the same citation indices, the same sources
\* (and the same backend calls were made).
C22_Deterministic ==
    SameRunAgain =>
        /\ (answer = Sentinel) <=> (ret.answer = Sentinel)
        /\ CiteSet(answer) = CiteSet(ret.answer)
        /\ sources = ret.sources
        /\ arg.log = ret.log
        /\ Responses(gens) = Responses(ret.gens)

\* a grounded ask repeated after another question: same cited answer
C22_Witness ==
    /\ SameRunAgain /\ entry = "ask"
    /\ Len(chat_history) = 6
    /\ Len(attempts) = 3
    /\ CiteSet(answer) = {1} /\ answer = ret.answer
    /\ sources # EmptySrc

====
